---- MODULE Spec2Model ----
(***************************************************************************)
(* A model of pty-rs (src/src/lib.rs): TtyServer, which owns a master/slave *)
(* PTY pair and hands the slave out once, and TtyClient, which puts a peer  *)
(* terminal in raw mode and binds it to the master through four splice      *)
(* loops chained over two pipes, behind one shared flag (do_flush).         *)
(*                                                                          *)
(* The caller of TtyServer/TtyClient, the spawned child and the user typing *)
(* at the peer are the environment.  The transfer loop itself               *)
(* (fd::splice_loop), the append-flag helpers (fd::unset_append_flag,       *)
(* fd::set_flags) and fd::FileDesc come from the fd crate, which is not     *)
(* part of src/: they are modelled from the specification's description.    *)
(***************************************************************************)
EXTENDS Integers, Sequences, FiniteSets, TLC

\* ------------------------------------------------------------------ bounds
\* Bytes the two sources (the processes on the slave, the user at the peer)
\* write in total.
MaxBytes == 2
\* Bytes an intermediate pipe holds before its writer has to wait.
PipeCap == 1
\* The counters of handed-out slaves and launched processes stop here.
MaxCount == 2

\* --------------------------------------------------------------- constants
Workers == 1..4
Endpoints == {"master", "peer"}
PipeEnds == {"m2p_tx", "m2p_rx", "p2m_tx", "p2m_rx"}
Fds == Endpoints \cup PipeEnds
Buffers == {"masterRd", "peerRd", "m2p", "p2m", "masterWr", "peerWr"}

\* Option<c_int> / Option<File>
None == [some |-> FALSE, v |-> {}]
Some(x) == [some |-> TRUE, v |-> x]

VARIABLES
    \* ---- TtyServer and the slave handle
    slave,        \* TtyServer.slave: "Some" or "None"
    holders,      \* who holds an open slave handle: subset of {server, taker, child}
    takeRet,      \* what the last take_slave() returned: "-", "Some", "None"
    spawnRet,     \* what the last spawn() returned: "-", "Ok", "NoSlave", "LaunchErr"
    obtained,     \* how many calls obtained the slave handle
    launched,     \* how many processes spawn() launched
    child,        \* the spawned child: "none", "running", "exited"
    \* ---- the caller of TtyClient and the four threads
    cpc,          \* the caller's position in new() / wait() / drop
    newErr,       \* the error new() returned, "-" if none
    pc,           \* pc[w]: "none" (not spawned), "poll", "xfer", "done"
    do_flush,     \* the shared AtomicBool
    event,        \* a () is queued in the flush_event channel
    txAlive,      \* the Sender event_tx has not been dropped
    waitEntry,    \* "set" if the last wait() was called with the flag set, else "clear"
    \* ---- terminal attributes and status flags
    termios,      \* the peer's current terminal attributes
    termios0,     \* the peer's attributes before new()
    termios_orig, \* TtyClient.termios_orig
    restoreOk,    \* the tcsetattr of drop() succeeded
    attrWrites,   \* tcsetattr calls made on the peer
    status,       \* status[e]: the status flags of endpoint e
    status0,      \* the status flags before new()
    saved,        \* saved[e]: TtyClient.peer_status / master_status
    flagWrites,   \* flagWrites[e]: F_SETFL calls made on endpoint e
    flagRestored, \* endpoints whose set_flags in drop() succeeded
    \* ---- descriptors and the bytes in flight
    open,         \* the open descriptors among Fds
    buf,          \* buf[b]: the bytes in buffer b
    sent,         \* sent[e]: bytes written so far at source e
    peerEof,      \* the peer's input has ended
    eofSeen       \* endpoints that signalled end-of-input to their reader

serverVars == <<slave, holders, takeRet, spawnRet, obtained, launched, child>>
ctlVars == <<cpc, newErr, pc, do_flush, event, txAlive, waitEntry>>
ttyVars == <<termios, termios0, termios_orig, restoreOk, attrWrites, status, status0,
             saved, flagWrites, flagRestored>>
dataVars == <<open, buf, sent, peerEof, eofSeen>>
vars == <<serverVars, ctlVars, ttyVars, dataVars>>

\* ------------------------------------------------------------ TtyServer
Min(a, b) == IF a < b THEN a ELSE b
Bump(n) == Min(n + 1, MaxCount)

\* Option::take(): the value returned and the value left in the field.
TakeKeeps(opt) == [ret |-> opt, left |-> opt]
Take(opt) == [ret |-> opt, left |-> "None"]

\* The caller is one thread: it calls the server when it is not inside
\* new_client() or wait().
ServerFree == cpc \in {"none", "bound", "failed", "dropped"}

ServerHolds(field) == IF field = "Some" THEN {"server"} ELSE {}

take_slave ==
    /\ ServerFree
    /\ LET t == Take(slave) IN
        /\ slave' = t.left
        /\ takeRet' = t.ret
        /\ IF t.ret = "Some"
           THEN /\ holders' = ServerHolds(t.left) \cup (holders \ {"server"}) \cup {"taker"}
                /\ obtained' = Bump(obtained)
           ELSE UNCHANGED <<holders, obtained>>
    /\ UNCHANGED <<spawnRet, launched, child, ctlVars, ttyVars, dataVars>>

\* spawn(): what it can return, given what self.slave.take() returned.
SpawnAlwaysLaunches(taken) == {"Ok", "LaunchErr"}
SpawnOutcomes(taken) ==
    IF taken = "Some" THEN {"Ok", "LaunchErr"} ELSE {"NoSlave"}

\* The copies of the slave the parent process still has open when spawn()
\* returns Ok: the File was turned into the Stdio of stderr by into_raw_fd()
\* and is closed with cmd.
ParentLeaksSlave == {"parent"}
ParentCopies == {}

\* What spawn() leaves in self.slave, given what take() left and returned
\* and how the launch went: the File taken is moved into cmd, never put back.
PutBackOnLaunchErr(left, taken, r) == IF r = "LaunchErr" THEN taken ELSE left
LeftBySpawn(left, taken, r) == left

spawn ==
    /\ ServerFree
    /\ LET t == Take(slave) IN
       \E r \in SpawnOutcomes(t.ret) :
        /\ slave' = LeftBySpawn(t.left, t.ret, r)
        /\ spawnRet' = r
        /\ obtained' = IF t.ret = "Some" THEN Bump(obtained) ELSE obtained
        /\ launched' = IF r = "Ok" THEN Bump(launched) ELSE launched
        /\ child' = IF r = "Ok" THEN "running" ELSE child
        /\ holders' =
            IF t.ret = "Some"
            THEN ServerHolds(LeftBySpawn(t.left, t.ret, r)) \cup (holders \ {"server"})
                    \cup (IF r = "Ok" THEN {"child"} \cup ParentCopies ELSE {})
            ELSE holders
    /\ UNCHANGED <<takeRet, ctlVars, ttyVars, dataVars>>

\* get_master() lends &self.master: nothing changes hands.
get_master ==
    /\ ServerFree
    /\ UNCHANGED vars

\* ---------------------------------------------------------- environment
Byte(src, i) == <<src, i>>
Written(src) == [i \in 1..sent[src] |-> Byte(src, i)]

\* A process holding the slave writes a byte: it becomes readable on the master.
SlaveWrite ==
    /\ holders \cap {"child", "taker"} # {}
    /\ sent["master"] + sent["peer"] < MaxBytes
    /\ sent' = [sent EXCEPT !["master"] = @ + 1]
    /\ buf' = [buf EXCEPT !["masterRd"] = Append(@, Byte("master", sent["master"] + 1))]
    /\ UNCHANGED <<serverVars, ctlVars, ttyVars, open, peerEof, eofSeen>>

\* The spawned child and all its descendants exit: their slave handles close.
ChildExit ==
    /\ child = "running"
    /\ child' = "exited"
    /\ holders' = holders \ {"child"}
    /\ UNCHANGED <<slave, takeRet, spawnRet, obtained, launched, ctlVars, ttyVars, dataVars>>

\* The user types a byte at the peer.
PeerWrite ==
    /\ ~peerEof
    /\ sent["master"] + sent["peer"] < MaxBytes
    /\ sent' = [sent EXCEPT !["peer"] = @ + 1]
    /\ buf' = [buf EXCEPT !["peerRd"] = Append(@, Byte("peer", sent["peer"] + 1))]
    /\ UNCHANGED <<serverVars, ctlVars, ttyVars, open, peerEof, eofSeen>>

\* The peer's input ends.
PeerClose ==
    /\ ~peerEof
    /\ peerEof' = TRUE
    /\ UNCHANGED <<serverVars, ctlVars, ttyVars, open, buf, sent, eofSeen>>

\* ------------------------------------------------- terminal attributes
\* A Termios, as far as new() reads or writes it: the local and input flags
\* that are set, and c_cc[VMIN], c_cc[VTIME].
RawLocalOff == {"ECHO", "ICANON", "ISIG"}
RawInputOff == {"IGNBRK", "ICRNL"}
RawInputOn == {"BRKINT"}
RawVmin == 1
RawVtime == 0

\* The attributes new() applies to the peer, derived from the ones it read.
RawOf(t) ==
    [lflag |-> t.lflag \ RawLocalOff,
     iflag |-> (t.iflag \ RawInputOff) \cup RawInputOn,
     vmin |-> RawVmin,
     vtime |-> RawVtime]

\* termios_orig: read from the peer before the raw attributes are applied.
SnapshotAfterRaw(t) == RawOf(t)
Snapshot(t) == t

\* The attributes a peer can have before new().
CookedTermios ==
    [lflag |-> {"ECHO", "ICANON", "ISIG", "IEXTEN"}, iflag |-> {"ICRNL", "IXON"},
     vmin |-> 4, vtime |-> 0]
NoEchoTermios ==
    [lflag |-> {"ISIG"}, iflag |-> {"IGNBRK"}, vmin |-> 0, vtime |-> 5]
NoTermios == [lflag |-> {}, iflag |-> {}, vmin |-> 0, vtime |-> 0]

\* ------------------------------------------------------- status flags
\* The status flags of a descriptor (F_GETFL), as the set of flags that are set.
\* The terminals new() can be given: one with both endpoints in append mode,
\* one with neither.
AppendSetup ==
    [termios |-> CookedTermios,
     status |-> [master |-> {"O_RDWR", "O_APPEND", "O_DSYNC"},
                 peer |-> {"O_RDWR", "O_APPEND"}]]
PlainSetup ==
    [termios |-> NoEchoTermios,
     status |-> [master |-> {"O_RDWR"}, peer |-> {"O_RDWR", "O_DSYNC"}]]
Setups == {AppendSetup, PlainSetup}

\* fd::unset_append_flag: Some(flags as read) if O_APPEND was set, and then
\* the flags are written back without it; None, and nothing written, if not.
UnsetAppend(flags) ==
    IF "O_APPEND" \in flags
    THEN [ret |-> Some(flags), now |-> flags \ {"O_APPEND"}, writes |-> 1]
    ELSE [ret |-> None, now |-> flags, writes |-> 0]

\* ------------------------------------------------------ the four threads
\* The descriptors each thread splices from and to (lines 144, 149, 158, 163).
WorkerRxBothMaster(w) ==
    CASE w = 1 -> "master" [] w = 2 -> "m2p_rx" [] w = 3 -> "master" [] w = 4 -> "p2m_rx"
WorkerRx(w) ==
    CASE w = 1 -> "master" [] w = 2 -> "m2p_rx" [] w = 3 -> "peer" [] w = 4 -> "p2m_rx"
WorkerTxCrossed(w) ==
    CASE w = 1 -> "m2p_tx" [] w = 2 -> "master" [] w = 3 -> "p2m_tx" [] w = 4 -> "peer"
WorkerTxBothPeer(w) ==
    CASE w = 1 -> "m2p_tx" [] w = 2 -> "peer" [] w = 3 -> "p2m_tx" [] w = 4 -> "peer"
WorkerTx(w) ==
    CASE w = 1 -> "m2p_tx" [] w = 2 -> "peer" [] w = 3 -> "p2m_tx" [] w = 4 -> "master"
\* The pipe end each closure owns, closed when its thread ends.
Captured(w) ==
    CASE w = 1 -> "m2p_tx" [] w = 2 -> "m2p_rx" [] w = 3 -> "p2m_tx" [] w = 4 -> "p2m_rx"
\* The thread that is given Some(event_tx).
HasNotifier(w) == w = 4
\* The flag each closure is given: a clone of the Arc do_flush_main, so the
\* one shared AtomicBool (lines 142, 146, 156, 160), not one of its own.
FlagOwnForPeerReader(w) == IF w = 3 THEN "own" ELSE "shared"
FlagOwnForMasterReader(w) == IF w = 1 THEN "own" ELSE "shared"
FlagOf(w) == "shared"

\* The buffer a descriptor reads from, and the one it writes to.
RdName(fd) ==
    CASE fd = "master" -> "masterRd" [] fd = "peer" -> "peerRd"
      [] fd \in {"m2p_rx", "m2p_tx"} -> "m2p" [] fd \in {"p2m_rx", "p2m_tx"} -> "p2m"
WrName(fd) ==
    CASE fd = "master" -> "masterWr" [] fd = "peer" -> "peerWr"
      [] fd \in {"m2p_rx", "m2p_tx"} -> "m2p" [] fd \in {"p2m_rx", "p2m_tx"} -> "p2m"
\* How many of k bytes the buffer behind a descriptor takes now: a pipe what
\* it has room for, a terminal all of them.
Room(fd, k) ==
    IF fd \in PipeEnds THEN Min(k, PipeCap - Len(buf[WrName(fd)])) ELSE k
\* No writer is left behind a descriptor: reading it empty is end-of-input.
AtEof(fd) ==
    CASE fd = "master" -> holders = {}
      [] fd = "peer" -> peerEof
      [] fd = "m2p_rx" -> "m2p_tx" \notin open
      [] fd = "p2m_rx" -> "p2m_tx" \notin open
      [] OTHER -> FALSE
\* No reader is left behind a pipe's write end.
Broken(fd) ==
    CASE fd = "m2p_tx" -> "m2p_rx" \notin open
      [] fd = "p2m_tx" -> "p2m_rx" \notin open
      [] OTHER -> FALSE

Running(w) == pc[w] \in {"poll", "xfer"}

\* The end of splice_loop: the flag is stored, the event is sent by the
\* thread that has the sender, the closure's pipe end is closed.
Exit(w, eof) ==
    /\ pc' = [pc EXCEPT ![w] = "done"]
    /\ do_flush' = IF FlagOf(w) = "shared" THEN TRUE ELSE do_flush
    /\ open' = open \ {Captured(w)}
    /\ eofSeen' = eofSeen \cup eof
    /\ IF HasNotifier(w)
       THEN event' = TRUE /\ txAlive' = FALSE
       ELSE UNCHANGED <<event, txAlive>>
    /\ UNCHANGED <<cpc, newErr, waitEntry, buf>>

\* The top of the loop: the flag is read.
Poll(w) ==
    /\ pc[w] = "poll"
    /\ IF FlagOf(w) = "shared" /\ do_flush
       THEN Exit(w, {})
       ELSE /\ pc' = [pc EXCEPT ![w] = "xfer"]
            /\ UNCHANGED <<cpc, newErr, waitEntry, do_flush, event, txAlive, open, buf, eofSeen>>
    /\ UNCHANGED <<serverVars, ttyVars, sent, peerEof>>

\* One transfer attempt.
Xfer(w) ==
    /\ pc[w] = "xfer"
    /\ LET rx == WorkerRx(w)
           tx == WorkerTx(w)
           rb == RdName(rx)
           wb == WrName(tx)
           usable == rx \in open /\ tx \in open
       IN
        \/ \* the transfer fails
           Exit(w, {})
        \/ \* the source is at end-of-input
           /\ usable /\ buf[rb] = <<>> /\ AtEof(rx)
           /\ Exit(w, {rx} \cap Endpoints)
        \/ \* bytes move
           /\ usable /\ buf[rb] # <<>> /\ ~Broken(tx)
           /\ \E n \in 1..Room(tx, Len(buf[rb])) :
                buf' = [buf EXCEPT ![rb] = SubSeq(@, n + 1, Len(@)),
                                   ![wb] = @ \o SubSeq(buf[rb], 1, n)]
           /\ pc' = [pc EXCEPT ![w] = "poll"]
           /\ UNCHANGED <<cpc, newErr, waitEntry, do_flush, event, txAlive, open, eofSeen>>
        \/ \* nothing to read yet, or no room to write yet
           /\ usable
           /\ \/ buf[rb] = <<>> /\ ~AtEof(rx)
              \/ buf[rb] # <<>> /\ ~Broken(tx) /\ Room(tx, Len(buf[rb])) = 0
           /\ pc' = [pc EXCEPT ![w] = "poll"]
           /\ UNCHANGED <<cpc, newErr, waitEntry, do_flush, event, txAlive, open, buf, eofSeen>>
    /\ UNCHANGED <<serverVars, ttyVars, sent, peerEof>>

\* ------------------------------------------------------- TtyClient::new
\* new() returns Err(err): its locals are dropped, `closing` among them; the
\* peer object is the caller's type, whose drop may or may not close it.
FailNew(err, closing) ==
    /\ cpc' = "failed"
    /\ newErr' = err
    /\ txAlive' = FALSE
    /\ \E peerCloses \in BOOLEAN :
        open' = (open \ closing) \ (IF peerCloses THEN {"peer"} ELSE {})

\* new_client() and new() up to the first thread (lines 76-79, 120-144).
new_client ==
    /\ cpc = "none"
    /\ \/ \* Termios::from_fd or tcsetattr fails
          /\ FailNew("attr", {})
          /\ \E called \in {0, 1} : attrWrites' = attrWrites + called
          /\ UNCHANGED <<pc, do_flush, event, termios, termios_orig>>
       \/ \* the first Pipe::new() fails, the peer already raw
          /\ termios' = RawOf(termios)
          /\ attrWrites' = attrWrites + 1
          /\ FailNew("pipe1", {})
          /\ UNCHANGED <<pc, do_flush, event, termios_orig>>
       \/ /\ termios_orig' = Snapshot(termios)
          /\ termios' = RawOf(termios)
          /\ attrWrites' = attrWrites + 1
          /\ do_flush' = FALSE
          /\ txAlive' = TRUE
          /\ open' = open \cup {"m2p_tx", "m2p_rx"}
          /\ pc' = [pc EXCEPT ![1] = "poll"]
          /\ cpc' = "l146"
          /\ UNCHANGED <<newErr, event>>
    /\ UNCHANGED <<serverVars, waitEntry, termios0, restoreOk, status, status0, saved, flagWrites,
                   flagRestored, buf, sent, peerEof, eofSeen>>

\* unset_append_flag(fd) succeeded on endpoint e.
ClearAppend(e) ==
    LET u == UnsetAppend(status[e]) IN
    /\ status' = [status EXCEPT ![e] = u.now]
    /\ saved' = [saved EXCEPT ![e] = u.ret]
    /\ flagWrites' = [flagWrites EXCEPT ![e] = @ + u.writes]

\* The descriptor given to unset_append_flag on line 148, before the thread
\* that writes to the peer is spawned.
UnsetBeforeSecondMaster == "master"
UnsetBeforeSecond == "peer"

\* Lines 146-149: the peer's append flag, then the second thread.
new_l146 ==
    /\ cpc = "l146"
    /\ \/ /\ FailNew("peer_flag", {"m2p_rx"})
          /\ UNCHANGED <<pc, status, saved, flagWrites>>
       \/ /\ ClearAppend(UnsetBeforeSecond)
          /\ pc' = [pc EXCEPT ![2] = "poll"]
          /\ cpc' = "l152"
          /\ UNCHANGED <<newErr, txAlive, open>>
    /\ UNCHANGED <<serverVars, waitEntry, do_flush, event, termios, termios0, termios_orig, restoreOk, attrWrites,
                   status0, flagRestored, buf, sent, peerEof, eofSeen>>

\* Lines 152-158: the second pipe, then the third thread.
new_l152 ==
    /\ cpc = "l152"
    /\ \/ /\ FailNew("pipe2", {})
          /\ UNCHANGED pc
       \/ /\ open' = open \cup {"p2m_tx", "p2m_rx"}
          /\ pc' = [pc EXCEPT ![3] = "poll"]
          /\ cpc' = "l160"
          /\ UNCHANGED <<newErr, txAlive>>
    /\ UNCHANGED <<serverVars, waitEntry, do_flush, event, ttyVars, buf, sent, peerEof, eofSeen>>

\* Lines 160-173: the master's append flag, the fourth thread, Ok(TtyClient).
new_l160 ==
    /\ cpc = "l160"
    /\ \/ /\ FailNew("master_flag", {"p2m_rx"})
          /\ UNCHANGED <<pc, status, saved, flagWrites>>
       \/ /\ ClearAppend("master")
          /\ pc' = [pc EXCEPT ![4] = "poll"]
          /\ cpc' = "bound"
          /\ UNCHANGED <<newErr, txAlive, open>>
    /\ UNCHANGED <<serverVars, waitEntry, do_flush, event, termios, termios0, termios_orig, restoreOk, attrWrites,
                   status0, flagRestored, buf, sent, peerEof, eofSeen>>

\* ------------------------------------------------------ TtyClient::wait
\* Where wait() starts: at the test of the while loop, before any recv().
WaitStartsAtRecv == "wait_recv"
WaitStart == "wait_test"

wait_call ==
    /\ cpc = "bound"
    /\ cpc' = WaitStart
    /\ waitEntry' = IF do_flush THEN "set" ELSE "clear"
    /\ UNCHANGED <<serverVars, newErr, pc, do_flush, event, txAlive, ttyVars, dataVars>>

\* while !self.do_flush.load(Relaxed)
wait_test ==
    /\ cpc = "wait_test"
    /\ cpc' = IF do_flush THEN "bound" ELSE "wait_recv"
    /\ UNCHANGED <<serverVars, newErr, waitEntry, pc, do_flush, event, txAlive, ttyVars, dataVars>>

\* let _ = self.flush_event.recv(): a message, or Err once the sender is gone
wait_recv ==
    /\ cpc = "wait_recv"
    /\ event \/ ~txAlive
    /\ event' = FALSE
    /\ cpc' = "wait_test"
    /\ UNCHANGED <<serverVars, newErr, waitEntry, pc, do_flush, txAlive, ttyVars, dataVars>>

\* ------------------------------------------------------ Drop for TtyClient
\* What drop() stores in do_flush.
DropClearsFlag == FALSE
DropFlagValue == TRUE
\* The endpoints whose saved status drop() writes back.
RestoreTargets == {"peer", "master"}
\* The saved status drop() pairs with each descriptor (line 191).
SavedSwapped(e) == IF e = "peer" THEN saved["master"] ELSE saved["peer"]
SavedFor(e) == saved[e]
\* Whether the append flags are restored, given how the tcsetattr before
\* them went: its result is discarded (`let _ =`, line 188).
FlagRestoresNeedAttr(attrOk) == attrOk
FlagRestoresRun(attrOk) == TRUE
\* The descriptors the TtyClient closes when its fields are dropped:
\* FileDesc::new(.., true) on lines 166 and 168.
ClientOwned == {"master", "peer"}

drop ==
    /\ cpc = "bound"
    /\ cpc' = "dropped"
    /\ do_flush' = DropFlagValue
    /\ attrWrites' = attrWrites + 1
    /\ \E ok \in BOOLEAN, okSet \in SUBSET Endpoints :
        LET tried == IF FlagRestoresRun(ok)
                     THEN {e \in RestoreTargets : SavedFor(e).some} ELSE {} IN
        /\ restoreOk' = ok
        /\ termios' = IF ok THEN termios_orig ELSE termios
        /\ flagRestored' = tried \cap okSet
        /\ status' = [e \in Endpoints |->
                        IF e \in tried \cap okSet THEN SavedFor(e).v ELSE status[e]]
        /\ flagWrites' = [e \in Endpoints |->
                        IF e \in tried THEN flagWrites[e] + 1 ELSE flagWrites[e]]
    /\ open' = open \ ClientOwned
    /\ UNCHANGED <<serverVars, newErr, waitEntry, pc, event, txAlive, termios0, termios_orig,
                   status0, saved, buf, sent, peerEof, eofSeen>>

\* ------------------------------------------------------------ the system
Init ==
    /\ slave = "Some" /\ holders = {"server"}
    /\ takeRet = "-" /\ spawnRet = "-"
    /\ obtained = 0 /\ launched = 0 /\ child = "none"
    /\ cpc = "none" /\ newErr = "-"
    /\ pc = [w \in Workers |-> "none"]
    /\ do_flush = FALSE /\ event = FALSE /\ txAlive = FALSE
    /\ waitEntry = "clear"
    /\ \E s \in Setups : termios = s.termios /\ status = s.status
    /\ termios0 = termios
    /\ termios_orig = NoTermios /\ restoreOk = FALSE /\ attrWrites = 0
    /\ status0 = status
    /\ saved = [e \in Endpoints |-> None]
    /\ flagWrites = [e \in Endpoints |-> 0]
    /\ flagRestored = {}
    /\ open = Endpoints
    /\ buf = [b \in Buffers |-> <<>>]
    /\ sent = [e \in Endpoints |-> 0]
    /\ peerEof = FALSE
    /\ eofSeen = {}

WorkerStep(w) == Poll(w) \/ Xfer(w)

\* The server, the processes on the slave and the user at the peer, with a
\* client bound to the master: the slave goes to a spawned child or stays.
Next ==
    \/ spawn
    \/ get_master
    \/ SlaveWrite
    \/ ChildExit
    \/ PeerWrite
    \/ PeerClose
    \/ new_client
    \/ new_l146
    \/ new_l152
    \/ new_l160
    \/ wait_call
    \/ wait_test
    \/ wait_recv
    \/ drop
    \/ \E w \in Workers : Poll(w)
    \/ \E w \in Workers : Xfer(w)

Spec == Init /\ [][Next]_vars

\* The server alone, no client bound: every order of take_slave() and spawn().
NextServer ==
    \/ take_slave
    \/ spawn
    \/ get_master
    \/ SlaveWrite
    \/ ChildExit
    \/ PeerWrite
    \/ PeerClose

SpecServer == Init /\ [][NextServer]_vars

\* A caller inside new() or wait() runs on to the end of the call.
CallerStep == new_l146 \/ new_l152 \/ new_l160 \/ wait_test \/ wait_recv

\* The threads are scheduled, and so is the caller inside a call.
Fairness ==
    /\ \A w \in Workers : WF_vars(WorkerStep(w))
    /\ WF_vars(CallerStep)

\* Progress does not depend on the terminal's attributes: one setup.
InitFair == Init /\ termios = PlainSetup.termios

FairSpec == InitFair /\ [][Next]_vars /\ Fairness

\* ================================================================ claims
IsPrefix(a, b) == Len(a) <= Len(b) /\ a = SubSeq(b, 1, Len(a))
Waiting == cpc \in {"wait_test", "wait_recv"}
Done == {w \in Workers : pc[w] = "done"}
\* Active: all four loops running, the flag clear.
Active == (\A w \in Workers : Running(w)) /\ ~do_flush

\* C1, as stated: the slave is handed out at most once and is at every moment
\* held by exactly one of the server, a spawned child, or the manual taker.
C1_ExactlyOneHolder ==
    /\ obtained <= 1
    /\ Cardinality(holders) = 1

\* C1, amended: over any sequence of take_slave() and spawn() the slave is
\* handed out at most once, a take_slave() made after it was consumed returns
\* None, and the slave is held by at most one of server, child and taker: by
\* the server exactly until the first call of either kind, and by nobody once
\* a spawn() failed to launch or the child has exited.
C1_SlaveHandedOutOnce ==
    /\ [](/\ obtained <= 1
          /\ Cardinality(holders) <= 1
          /\ (slave = "Some") = (holders = {"server"})
          /\ (slave = "Some") = (obtained = 0)
          /\ (holders = {} => spawnRet \in {"Ok", "LaunchErr", "NoSlave"} /\ child # "running"))
    /\ [][take_slave /\ obtained >= 1 =>
            takeRet' = "None" /\ obtained' = obtained /\ holders' = holders]_vars

C1_Witness ==
    /\ takeRet = "None"
    /\ holders = {"child"}
    /\ obtained = 1

\* C2: spawn() called when the server holds no slave returns the
\* SlaveAlreadyConsumed error and launches no process.
C2_SpawnAfterConsumed ==
    [][spawn /\ slave = "None" =>
        /\ spawnRet' = "NoSlave"
        /\ launched' = launched
        /\ child' = child
        /\ holders' = holders]_vars

C2_Witness ==
    /\ spawnRet = "NoSlave"
    /\ takeRet = "Some"
    /\ launched = 0

\* C3: byte-transparency per direction.  What is observed at a destination
\* is at every moment a prefix of what was written at its source, and while
\* the proxy stays Active every byte written at a source is eventually
\* observed at its destination (whatever is pending at a destination arrives
\* unless the proxy stops being Active), in each direction whatever the
\* other does.
Pending(src, dst) == Len(buf[dst]) < sent[src]
Delivered(src, dst) ==
    (Active /\ Pending(src, dst)) ~> (~Active \/ ~Pending(src, dst))

C4_EofStopsBinding ==
    /\ (Waiting /\ eofSeen # {}) ~> (cpc = "bound")
    /\ [](\A w \in Workers : WorkerRx(w) \in eofSeen => ~Running(w))

C4_Witness ==
    /\ "peer" \in eofSeen
    /\ cpc = "wait_recv"

\* C5: after spawn() returned Ok the parent holds no open copy of the slave,
\* so once the child and its descendants have exited the loop reading the
\* master stops, the flag is set and a caller inside wait() returns.
C5_ChildExitStopsBinding ==
    /\ [](launched >= 1 => holders \subseteq {"child"})
    /\ (child = "exited" /\ Running(1)) ~> (pc[1] = "done" /\ do_flush)
    /\ (child = "exited" /\ Waiting) ~> (cpc = "bound")

C5_Witness ==
    /\ child = "exited"
    /\ "master" \in eofSeen
    /\ cpc = "wait_recv"

\* C6: after disposal with a successful restore, the peer's terminal
\* attributes equal the snapshot taken before raw mode was applied.
C6_TermiosRestored ==
    (cpc = "dropped" /\ restoreOk) => termios = termios0

C6_Witness ==
    /\ cpc = "dropped"
    /\ restoreOk
    /\ termios0 = CookedTermios
    /\ termios = CookedTermios

C8_NoWorkerAfterFailedNew ==
    cpc = "failed" => \A w \in Workers : ~Running(w)

\* C9: the server's master handle stays open for as long as the server
\* exists (the server is never released here), whatever is done with a
\* client bound to it.
C9_MasterStaysOpen ==
    "master" \in open

\* C10: the flag starts clear, is never cleared once set, and is set after
\* any number of workers and/or disposal have stored it.
C10_FlagMonotonic ==
    /\ [](/\ cpc = "none" => ~do_flush
          /\ (Done # {} \/ cpc = "dropped") => do_flush)
    /\ [][do_flush => do_flush']_vars

C10_Witness ==
    /\ cpc = "dropped"
    /\ Cardinality(Done) >= 2
    /\ do_flush

\* C11: a call to wait() made when the flag is already set (a later call
\* after a wait() returned, or a first call after the binding stopped) never
\* waits on the notification: its test of the flag returns to the caller.
C11_WaitOnSetFlagReturns ==
    /\ [](waitEntry = "set" => cpc # "wait_recv")
    /\ [][wait_test /\ waitEntry = "set" => cpc' = "bound"]_vars

\* A call made with the flag set has returned, the notification still queued.
C11_Witness ==
    /\ waitEntry = "set"
    /\ cpc = "bound"
    /\ event

\* C12: whenever a call to wait() returns, the flag is set and all four
\* transfer loops have exited (the proxy is Stopped).
C12_WaitReturnsStopped ==
    [][wait_test /\ cpc' = "bound" =>
        do_flush /\ \A w \in Workers : pc[w] = "done"]_vars

\* C13: cooperative shutdown.  Once the flag is set, by a loop that exits or
\* by disposal, every loop that was launched exits, at its next poll if not
\* before, so a proxy that new() returned goes from Active through Stopping to Stopped; a loop that has
\* exited never runs again (Stopped is never left) and the proxy is never
\* Active again.
Built == cpc \in {"bound", "wait_test", "wait_recv", "dropped"}
Stopped == \A w \in Workers : pc[w] = "done"
Settled == cpc \notin {"l146", "l152", "l160"} /\ \A w \in Workers : ~Running(w)

C13_CooperativeShutdown ==
    /\ do_flush ~> Settled
    /\ [][\A w \in Workers : Poll(w) /\ do_flush => pc'[w] = "done"]_vars
    /\ [](Built => \A w \in Workers : pc[w] # "none")
    /\ [](Built /\ Settled => Stopped)
    /\ [][\A w \in Workers : pc[w] = "done" => pc'[w] = "done"]_vars
    /\ [][do_flush => ~Active']_vars

\* Stopped after disposal, no endpoint having signalled end-of-input.
C13_Witness ==
    /\ Stopped
    /\ cpc = "dropped"
    /\ eofSeen = {}

\* C14: a transfer error is handled like end-of-input.  Whenever at least
\* one loop has exited, for end-of-input, a transfer error or the flag, the
\* flag is set; and no error reaches a caller: a step of a loop changes
\* neither where the caller is nor what new() returned, only new()'s own
\* failures are returned by new(), and wait() returns nothing.
NewErrors == {"attr", "pipe1", "peer_flag", "pipe2", "master_flag"}

C14_TransferErrorAbsorbed ==
    /\ [](Done # {} => do_flush)
    /\ [](IF cpc = "failed" THEN newErr \in NewErrors ELSE newErr = "-")
    /\ [][(\E w \in Workers : WorkerStep(w)) => cpc' = cpc /\ newErr' = newErr]_vars
    /\ [][wait_test \/ wait_recv => newErr' = newErr /\ cpc' \in {"bound", "wait_test", "wait_recv"}]_vars

\* A loop has exited on a transfer error (no endpoint signalled end-of-input,
\* the proxy was not disposed of), the caller is inside wait().
C14_Witness ==
    /\ Done # {}
    /\ eofSeen = {}
    /\ cpc = "wait_recv"
    /\ newErr = "-"

\* The step launches loop w.
Launches(w) == pc[w] = "none" /\ pc'[w] # "none"
IsRaw == termios = RawOf(termios0)
AppendHandled(e) ==
    /\ "O_APPEND" \notin status[e]
    /\ "O_APPEND" \in status0[e] => saved[e] = Some(status0[e])

\* C15, as stated: no transfer loop is launched before the peer is in raw
\* mode and before the append flag of both endpoints, peer and master, has
\* been read and, if set, cleared and remembered.
C15_FlagsBeforeAnyLoop ==
    [][\A w \in Workers : Launches(w) =>
        IsRaw' /\ \A e \in Endpoints : AppendHandled(e)']_vars

\* C15, amended: no transfer loop is launched before the peer is in raw
\* mode, and no loop that writes to an endpoint (the second stage of either
\* direction) is launched before that endpoint's append flag has been read
\* and, if set, cleared and remembered; the first stages, which only read
\* an endpoint, are launched before the flags are dealt with.
C15_FlagBeforeItsWriter ==
    [][\A w \in Workers : Launches(w) =>
        /\ IsRaw'
        /\ WorkerTx(w) \in Endpoints => AppendHandled(WorkerTx(w))'
        /\ WorkerTx(w) \in PipeEnds => WorkerRx(w) \in Endpoints]_vars

\* The loop writing to the peer runs, the peer's flag cleared and
\* remembered, while the master still has its append flag.
C15_Witness ==
    /\ cpc = "l152"
    /\ pc[2] # "none"
    /\ AppendHandled("peer")
    /\ "O_APPEND" \in status0["peer"]
    /\ "O_APPEND" \in status["master"]

\* The descriptors loop w operates on.
Operates(w) == {WorkerRx(w), WorkerTx(w)}
Runners == {w \in Workers : Running(w)}

\* C16, as stated: no descriptor, master, peer or a pipe end, is operated
\* on by more than one running loop at the same time.
C16_DisjointDescriptors ==
    \A v, w \in Runners : v # w => Operates(v) \cap Operates(w) = {}

\* C16, amended: no descriptor is read by more than one running loop nor
\* written by more than one, and each pipe end is operated on by one loop
\* only; the master and the peer are each operated on by two loops at the
\* same time, the one that reads it and the one that writes to it.
C16_OneReaderOneWriter ==
    \A v, w \in Runners : v # w =>
        /\ WorkerRx(v) # WorkerRx(w)
        /\ WorkerTx(v) # WorkerTx(w)
        /\ Operates(v) \cap Operates(w) \subseteq Endpoints

\* All four loops inside a transfer attempt at once.
C16_Witness ==
    \A w \in Workers : pc[w] = "xfer"

\* C17: teardown is best-effort and always completes.  Disposal of a bound
\* client is always possible and, in one go, sets the flag, attempts the
\* restore of the peer's attributes and attempts the restore of each
\* remembered append flag, whichever of these attempts fail; it ends
\* disposed of, no error surfaced.
C17_TeardownCompletes ==
    /\ [](cpc = "bound" => ENABLED drop)
    /\ [][drop =>
            /\ cpc' = "dropped" /\ newErr' = newErr
            /\ do_flush'
            /\ attrWrites' = attrWrites + 1
            /\ \A e \in Endpoints :
                 flagWrites'[e] = flagWrites[e] + (IF saved[e].some THEN 1 ELSE 0)]_vars

\* Disposed of with the attribute restore and the peer's flag restore both
\* failed: the master's flag was restored all the same.
C17_Witness ==
    /\ cpc = "dropped"
    /\ ~restoreOk
    /\ attrWrites = 2
    /\ flagRestored = {"master"}
    /\ \A e \in Endpoints : flagWrites[e] = 2
    /\ status["master"] = status0["master"]

\* C18: when new() has returned an error, the peer's terminal attributes
\* and the status flags of both endpoints are what they were before the
\* call, also when raw mode had been applied or an append flag cleared.
C18_FailedNewLeavesStateUnchanged ==
    cpc = "failed" => termios = termios0 /\ status = status0

\* C19: once disposal has closed the master and the peer descriptors the
\* client owns, no loop that uses one of them is at a transfer attempt:
\* each had exited before the descriptor was closed.
C19_NoTransferOnClosed ==
    cpc = "dropped" =>
        \A w \in Workers : Operates(w) \cap ClientOwned # {} => pc[w] # "xfer"

\* C20: spawn() consumes the slave whether or not the launch succeeds.
\* After a spawn() that held the slave the server holds none, a launch
\* error included; after a launch error a take_slave() returns None and a
\* spawn() fails with SlaveAlreadyConsumed, launching nothing.
C20_FailedLaunchConsumesSlave ==
    /\ [][spawn /\ slave = "Some" => slave' = "None" /\ "server" \notin holders']_vars
    /\ [](spawnRet = "LaunchErr" => slave = "None" /\ "server" \notin holders)
    /\ [][take_slave /\ spawnRet = "LaunchErr" => takeRet' = "None"]_vars
    /\ [][spawn /\ spawnRet = "LaunchErr" =>
            spawnRet' = "NoSlave" /\ launched' = launched]_vars

\* The slave went to a spawn() that failed to launch; a take_slave() and a
\* second spawn() made afterwards both got nothing.
C20_Witness ==
    /\ obtained = 1
    /\ launched = 0
    /\ holders = {}
    /\ takeRet = "None"
    /\ spawnRet = "NoSlave"

====
